---- MODULE Spec2Model ----
(***************************************************************************)
(* Infograph2Data: the heuristic table parser (services/extractor.py), the *)
(* extraction runs that fill the dataset store, and the dataset update of  *)
(* the review router (routers/review.py), and the two-phase vision flow of *)
(* the identify router (routers/identify.py).                              *)
(*                                                                         *)
(* A Python str is a sequence of one-character strings.  A Python dict is  *)
(* a function from its keys to its values; the insertion order of a dict   *)
(* is not modelled.  A dict value is tagged: IntV(n) is the int n, StrV(s) *)
(* the str s.                                                              *)
(***************************************************************************)
EXTENDS Integers, Sequences, FiniteSets, TLC

VARIABLES
    text,       \* the text handed to parse_table_from_text
    nlines,     \* number of lines the text was built from
    parsed,     \* what parse_table_from_text returned, or NotParsed
    ppc,        \* "input" while the text is built, "done" after the call
    datasets,   \* storage/datasets: dataset id -> Dataset
    jobs,       \* storage/jobs: job id -> job state
    idents,     \* storage/identifications: id -> StoredIdentification
    now,        \* the wall clock
    nextId,     \* number of uuids drawn so far, plus one
    handled,    \* the last request handled and its response
    calls,      \* update_dataset in two server processes: position and locals
    vision_call,    \* vision.extract_data: its arguments and the model's reply
    vision_result   \* vision.extract_data: the prompt items and the datasets

pvars == <<text, nlines, parsed, ppc>>

svars == <<datasets, jobs, idents, now, nextId, handled>>

rvars == <<calls>>

vvars == <<vision_call, vision_result>>

vars == <<text, nlines, parsed, ppc, datasets, jobs, idents, now, nextId, handled,
          calls, vision_call, vision_result>>

-----------------------------------------------------------------------------
(* Characters and strings                                                  *)

TAB == "\t"
NL == "\n"
SP == " "
PIPE == "|"
COLON == ":"

\* str.isspace(), also the class \s of the re module
IsSpace(c) == c \in {SP, TAB, NL}

\* str.isdigit() of one character
IsDigit(c) == c \in {"0", "1", "2", "3", "4", "5", "6", "7", "8", "9"}

IntV(n) == [t |-> "int", v |-> n]
StrV(s) == [t |-> "str", v |-> s]

Min(S) == CHOOSE x \in S : \A y \in S : x <= y
Max(S) == CHOOSE x \in S : \A y \in S : x >= y

Range(s) == {s[i] : i \in DOMAIN s}

\* str.count(ch)
RECURSIVE count(_, _)
count(s, ch) ==
    IF s = <<>> THEN 0
    ELSE (IF Head(s) = ch THEN 1 ELSE 0) + count(Tail(s), ch)

\* str.strip(): leading and trailing whitespace removed
RECURSIVE lstrip(_)
lstrip(s) ==
    IF s # <<>> /\ IsSpace(Head(s)) THEN lstrip(Tail(s)) ELSE s

RECURSIVE rstrip(_)
rstrip(s) ==
    IF s # <<>> /\ IsSpace(s[Len(s)]) THEN rstrip(SubSeq(s, 1, Len(s) - 1)) ELSE s

strip(s) == rstrip(lstrip(s))

\* str.split(d) for a one-character separator: always at least one piece
RECURSIVE split(_, _)
split(s, d) ==
    IF \E i \in DOMAIN s : s[i] = d
    THEN LET i == Min({k \in DOMAIN s : s[k] = d})
         IN  <<SubSeq(s, 1, i - 1)>> \o split(SubSeq(s, i + 1, Len(s)), d)
    ELSE <<s>>

\* re.compile(r"\s{2,}").split(line): cut at every maximal run of two or
\* more whitespace characters
RECURSIVE space_split(_)
space_split(s) ==
    IF \E i \in 1..(Len(s) - 1) : IsSpace(s[i]) /\ IsSpace(s[i + 1])
    THEN LET i == Min({k \in 1..(Len(s) - 1) : IsSpace(s[k]) /\ IsSpace(s[k + 1])})
             j == Max({k \in i..Len(s) : \A m \in i..k : IsSpace(s[m])})
         IN  <<SubSeq(s, 1, i - 1)>> \o space_split(SubSeq(s, j + 1, Len(s)))
    ELSE <<s>>

\* str(n) of a positive int
DigitChars == <<"0", "1", "2", "3", "4", "5", "6", "7", "8", "9">>

RECURSIVE str(_)
str(n) ==
    IF n < 10 THEN <<DigitChars[n + 1]>>
    ELSE str(n \div 10) \o <<DigitChars[(n % 10) + 1]>>

\* f"Column_{i+1}" is ColumnName(i + 1)
ColumnName(n) == <<"C", "o", "l", "u", "m", "n", "_">> \o str(n)

ROW_ID == <<"r", "o", "w", "_", "i", "d">>
KEY == <<"K", "e", "y">>
VALUE == <<"V", "a", "l", "u", "e">>
TEXT == <<"T", "e", "x", "t">>

\* d[k] = v on a dict
DictSet(d, k, v) == [x \in (DOMAIN d) \cup {k} |-> IF x = k THEN v ELSE d[x]]

-----------------------------------------------------------------------------
(* services/extractor.py: the table parser                                 *)

\* Faulty variant of strip_nonblank: the `if line.strip(` filter is lost)
strip_keep_blank(ls) == [i \in 1..Len(ls) |-> strip(ls[i])]

\* lines = [line.strip() for line in text.split("\n") if line.strip()]
RECURSIVE strip_nonblank(_)
strip_nonblank(ls) ==
    IF ls = <<>> THEN <<>>
    ELSE (IF strip(Head(ls)) # <<>> THEN <<strip(Head(ls))>> ELSE <<>>)
         \o strip_nonblank(Tail(ls))

text_lines(txt) == strip_nonblank(split(txt, NL))

\* Faulty variant of fill_row: a missing cell leaves the column out of the row
RECURSIVE fill_row_no_pad(_, _, _, _)
fill_row_no_pad(row, columns, parts, j) ==
    IF j > Len(columns) THEN row
    ELSE fill_row_no_pad(
            IF j <= Len(parts) THEN DictSet(row, columns[j], StrV(parts[j])) ELSE row,
            columns, parts, j + 1)

\* the loop `for j, col in enumerate(columns)` of both row builders, from
\* position j on: row[col] = parts[j] if j < len(parts) else ""
RECURSIVE fill_row(_, _, _, _)
fill_row(row, columns, parts, j) ==
    IF j > Len(columns) THEN row
    ELSE fill_row(
            DictSet(row, columns[j],
                    StrV(IF j <= Len(parts) THEN parts[j] ELSE <<>>)),
            columns, parts, j + 1)

\* rows of `for i, parts in enumerate(split_lines)`: row_id = i + 1 first,
\* then the cells
build_rows(columns, split_lines) ==
    [i \in 1..Len(split_lines) |->
        fill_row([k \in {ROW_ID} |-> IntV(i)], columns, split_lines[i], 1)]

\* [[cell.strip() for cell in line.split(delimiter)] for line in lines]
split_cells(line, delimiter) ==
    LET cells == split(line, delimiter)
    IN  [j \in 1..Len(cells) |-> strip(cells[j])]

\* Faulty variant of header_names: an empty header cell is kept as the name
header_names_raw(cells) == cells

\* columns = [c if c else f"Column_{i+1}" for i, c in enumerate(columns)]
header_names(cells) ==
    [j \in 1..Len(cells) |-> IF cells[j] # <<>> THEN cells[j] ELSE ColumnName(j)]

\* Faulty variant of _parse_delimited: the header line is also emitted as a row
parse_delimited_keep_header(lines, delimiter) ==
    LET split_lines == [i \in 1..Len(lines) |-> split_cells(lines[i], delimiter)]
        columns == IF split_lines # <<>> THEN header_names(split_lines[1]) ELSE <<>>
    IN  [columns |-> columns,
         rows |-> build_rows(columns, split_lines)]

_parse_delimited(lines, delimiter) ==
    LET split_lines == [i \in 1..Len(lines) |-> split_cells(lines[i], delimiter)]
        columns == IF split_lines # <<>> THEN header_names(split_lines[1]) ELSE <<>>
    IN  [columns |-> columns,
         rows |-> build_rows(columns, Tail(split_lines))]

\* min(tab_counts) > 0 and max(tab_counts) == min(tab_counts)
tab_scheme(lines) ==
    LET tab_counts == {count(lines[i], TAB) : i \in DOMAIN lines}
    IN  lines # <<>> /\ Min(tab_counts) > 0 /\ Max(tab_counts) = Min(tab_counts)

\* min(pipe_counts) > 1
pipe_scheme(lines) ==
    LET pipe_counts == {count(lines[i], PIPE) : i \in DOMAIN lines}
    IN  lines # <<>> /\ Min(pipe_counts) > 1

\* min(col_counts) > 1 and max(col_counts) - min(col_counts) <= 1
space_scheme(lines) ==
    LET col_counts == {Len(space_split(lines[i])) : i \in DOMAIN lines}
    IN  lines # <<>> /\ Min(col_counts) > 1 /\ Max(col_counts) - Min(col_counts) <= 1

\* Faulty variant of looks_like_header: one token without a leading digit
\* is enough
looks_like_header_some(first_parts) ==
    \E k \in DOMAIN first_parts :
        first_parts[k] # <<>> /\ ~IsDigit(first_parts[k][1])

\* all(not part[0].isdigit() for part in first_parts if part)
looks_like_header(first_parts) ==
    \A k \in DOMAIN first_parts :
        first_parts[k] # <<>> => ~IsDigit(first_parts[k][1])

parse_spaces(lines) ==
    LET space_lines == [i \in 1..Len(lines) |-> space_split(lines[i])]
        max_cols == Max({Len(space_lines[i]) : i \in DOMAIN space_lines})
        header == looks_like_header(space_lines[1])
        columns == IF header THEN space_lines[1]
                   ELSE [i \in 1..max_cols |-> ColumnName(i)]
        data == IF header THEN Tail(space_lines) ELSE space_lines
        \* row[col] = parts[j].strip()
        stripped == [i \in 1..Len(data) |->
                        [j \in 1..Len(data[i]) |-> strip(data[i][j])]]
    IN  [columns |-> columns, rows |-> build_rows(columns, stripped)]

\* re.compile(r"^(.+?):\s*(.+)$").match(line): the label ends before the
\* first colon that has a character before it and a character after it; the
\* value is what follows the whitespace after that colon (the last character
\* alone when nothing else follows)
kv_colons(line) ==
    {i \in 2..(Len(line) - 1) : line[i] = COLON}

kv_matches(line) == kv_colons(line) # {}

\* Faulty variant of kv_pair: a greedy label, cut at the last colon
kv_pair_greedy(line) ==
    LET i == Max(kv_colons(line))
        rest == SubSeq(line, i + 1, Len(line))
    IN  <<strip(SubSeq(line, 1, i - 1)), strip(rest)>>

kv_pair(line) ==
    LET i == Min(kv_colons(line))
        rest == SubSeq(line, i + 1, Len(line))
        group2 == IF lstrip(rest) # <<>> THEN lstrip(rest)
                  ELSE <<rest[Len(rest)]>>
    IN  <<strip(SubSeq(line, 1, i - 1)), strip(group2)>>

RECURSIVE kv_extract(_)
kv_extract(lines) ==
    IF lines = <<>> THEN <<>>
    ELSE (IF kv_matches(Head(lines)) THEN <<kv_pair(Head(lines))>> ELSE <<>>)
         \o kv_extract(Tail(lines))

parse_kv(kv_pairs) ==
    [columns |-> <<KEY, VALUE>>,
     rows |-> [i \in 1..Len(kv_pairs) |->
                (ROW_ID :> IntV(i)) @@ (KEY :> StrV(kv_pairs[i][1]))
                    @@ (VALUE :> StrV(kv_pairs[i][2]))]]

parse_fallback(lines) ==
    [columns |-> <<TEXT>>,
     rows |-> [i \in 1..Len(lines) |->
                (ROW_ID :> IntV(i)) @@ (TEXT :> StrV(lines[i]))]]

\* Faulty variant of scheme_of: pipes are tried before tabs
scheme_of_pipe_first(lines) ==
    IF lines = <<>> THEN "empty"
    ELSE IF pipe_scheme(lines) THEN "pipe"
    ELSE IF tab_scheme(lines) THEN "tab"
    ELSE IF space_scheme(lines) THEN "space"
    ELSE IF Len(kv_extract(lines)) >= 2 THEN "kv"
    ELSE "text"

\* The return statement taken, in the order the code tries the schemes
scheme_of(lines) ==
    IF lines = <<>> THEN "empty"
    ELSE IF tab_scheme(lines) THEN "tab"
    ELSE IF pipe_scheme(lines) THEN "pipe"
    ELSE IF space_scheme(lines) THEN "space"
    ELSE IF Len(kv_extract(lines)) >= 2 THEN "kv"
    ELSE "text"

\* parse_table_from_text(text): (columns, rows), with the scheme that
\* produced them
parse_table_from_text(txt) ==
    LET lines == text_lines(txt)
        scheme == scheme_of(lines)
        table == CASE scheme = "empty" -> [columns |-> <<>>, rows |-> <<>>]
                   [] scheme = "tab" -> _parse_delimited(lines, TAB)
                   [] scheme = "pipe" -> _parse_delimited(lines, PIPE)
                   [] scheme = "space" -> parse_spaces(lines)
                   [] scheme = "kv" -> parse_kv(kv_extract(lines))
                   [] OTHER -> parse_fallback(lines)
    IN  [columns |-> table.columns, rows |-> table.rows, scheme |-> scheme]

-----------------------------------------------------------------------------
(* The parser's inputs: texts of at most MaxLines lines, each line drawn   *)
(* from LineShapes, joined by newlines.                                    *)

MaxLines == 3

RECURSIVE Cat(_)
Cat(ss) == IF ss = <<>> THEN <<>> ELSE Head(ss) \o Cat(Tail(ss))

A == <<"a">>
B == <<"b">>
C == <<"c">>
ONE == <<"1">>

LineShapes ==
    { <<>>,                                   \* blank line
      <<SP>>,                                 \* whitespace only
      A,                                      \* plain text
      \* tabs
      Cat(<<A, <<SP, TAB>>, B>>),             \* a \tb     one tab, padded cell
      Cat(<<B, <<TAB>>, ONE>>),               \* b\t1
      Cat(<<A, <<TAB>>, A>>),                 \* a\ta      duplicate names
      Cat(<<A, <<TAB, TAB>>, B>>),            \* a\t\tb    two tabs, empty cell
      Cat(<<ROW_ID, <<TAB>>, A>>),            \* row_id\ta
      Cat(<<<<PIPE>>, A, <<PIPE, TAB>>, B>>), \* |a|\tb    one tab, two pipes
      \* pipes
      Cat(<<A, <<PIPE>>, B, <<PIPE>>, ONE>>), \* a|b|1
      Cat(<<<<PIPE>>, A, <<PIPE>>, B, <<PIPE>>>>),  \* |a|b|
      Cat(<<A, <<PIPE>>, B>>),                \* a|b       one pipe only
      Cat(<<A, <<PIPE, SP, SP, PIPE>>, B>>),  \* a|  |b    pipes and a wide gap
      \* runs of spaces
      Cat(<<A, <<SP, SP>>, B>>),              \* a  b
      Cat(<<A, <<SP, SP>>, B, <<SP, SP>>, C>>),  \* a  b  c
      Cat(<<A, <<SP, SP, SP>>, ONE>>),        \* a   1     digit, not first
      Cat(<<ROW_ID, <<SP, SP>>, A>>),         \* row_id  a
      Cat(<<ONE, <<SP, SP>>, A>>),            \* 1  a      digit first
      \* label: value
      Cat(<<A, <<COLON, SP>>, ONE>>),         \* a: 1
      Cat(<<B, <<COLON>>, ONE, <<COLON>>, A>>),  \* b:1:a
      Cat(<<<<COLON>>, A, <<COLON>>, ONE>>),  \* :a:1      leading colon
      Cat(<<A, <<COLON>>>>),                  \* a:        nothing after
      Cat(<<A, <<COLON, SP, SP>>, ONE>>)      \* a:  1     colon and a wide gap
    }

NotParsed == [columns |-> <<>>, rows |-> <<>>, scheme |-> "none"]

\* a dict with no key
EmptyDict == [k \in {} |-> 0]

NoId == <<"none", 0>>

NoRequest == [op |-> "none", code |-> 0, id |-> NoId, columns |-> FALSE, rows |-> FALSE]

\* the two server processes that share the storage directory
Callers == {1, 2}

\* no update_dataset call under way
NoCalls == [c \in Callers |-> [pc |-> "idle"]]

\* extract_data not called
NoVisionCall == [called |-> FALSE]
NoVisionResult == [returned |-> FALSE]

\* the storage directory after start-up, nothing handled yet
InitStore ==
    /\ datasets = EmptyDict
    /\ jobs = EmptyDict
    /\ idents = EmptyDict
    /\ now = 0
    /\ nextId = 1
    /\ handled = NoRequest
    /\ calls = NoCalls
    /\ vision_call = NoVisionCall
    /\ vision_result = NoVisionResult

InitParse ==
    /\ text = <<>>
    /\ nlines = 0
    /\ parsed = NotParsed
    /\ ppc = "input"
    /\ InitStore

\* one more line of input: "\n".join
AppendLine(l) ==
    /\ ppc = "input"
    /\ nlines < MaxLines
    /\ text' = IF nlines = 0 THEN l ELSE text \o <<NL>> \o l
    /\ nlines' = nlines + 1
    /\ UNCHANGED <<parsed, ppc>>
    /\ UNCHANGED <<svars, rvars, vvars>>

\* columns, rows = parse_table_from_text(raw_text)
Parse ==
    /\ ppc = "input"
    /\ parsed' = parse_table_from_text(text)
    /\ ppc' = "done"
    /\ UNCHANGED <<text, nlines>>
    /\ UNCHANGED <<svars, rvars, vvars>>

NextParse ==
    \/ \E l \in LineShapes : AppendLine(l)
    \/ Parse

SpecParse == InitParse /\ [][NextParse]_vars

-----------------------------------------------------------------------------
(* The stores and the clock                                                *)

MaxIds == 2        \* uuids drawn in one behaviour
MaxJobs == 1       \* text-layer extraction runs
MaxEdits == 2      \* history entries of one dataset
MaxClock == 1      \* clock readings after start-up

\* datetime.now(timezone.utc) is aware; datetime.now() and
\* datetime.utcnow() are naive
Aware(t) == [t |-> t, aware |-> TRUE]
Naive(t) == [t |-> t, aware |-> FALSE]
NoTime == [t |-> 0 - 1, aware |-> FALSE]

\* a > b on datetimes: "TypeError" when one is aware and the other naive
Later(a, b) ==
    IF a.aware # b.aware THEN "TypeError"
    ELSE IF a.t > b.t THEN "yes" ELSE "no"

JobId(n) == <<"job", n>>
DatasetId(n) == <<"ds", n>>
IdentId(n) == <<"ident", n>>

Absent == [present |-> FALSE, v |-> <<>>]
Given(v) == [present |-> TRUE, v |-> v]

\* save_job, save_dataset, save_identification: the whole record, by id
Put(store, id, record) ==
    [k \in (DOMAIN store) \cup {id} |-> IF k = id THEN record ELSE store[k]]

Response(op, code, id) ==
    [op |-> op, code |-> code, id |-> id, columns |-> FALSE, rows |-> FALSE]

-----------------------------------------------------------------------------
(* services/extractor.py: run_extraction, behind POST /extract             *)

MinUsableText == 10

\* Faulty variant of page_has_text: any text counts
page_has_any_text(pagetext) == Len(strip(pagetext)) > 0

\* pdf_service.page_has_text: len(text) > 10 on the stripped page text
page_has_text(pagetext) == Len(strip(pagetext)) > MinUsableText

\* pdf_service.extract_page_text(file_path, page, bbox): the stripped text of
\* the page, or of the clip rectangle, which here lies off the text
extract_page_text(pagetext, clipped) == IF clipped THEN <<>> ELSE strip(pagetext)

LogLine(msg, n) == [line |-> msg, n |-> n]

\* the job dict; file_id, page and bbox are copied from the request and
\* written nowhere else, and are left out, as they are in the datasets
NewJob(n, strategy) ==
    [job_id |-> JobId(n),
     dataset_id |-> DatasetId(n),
     status |-> "running",
     strategy_requested |-> strategy,
     strategy_used |-> "none",
     created_at |-> Aware(now),
     completed_at |-> NoTime,
     error |-> "none",
     logs |-> <<LogLine("Starting extraction on page", 0)>>]

\* Faulty variant of Finish: completed_at is left as it was
Finish_unstamped(job, status, error, lines) ==
    [job EXCEPT !.status = status,
                !.error = error,
                !.logs = job.logs \o lines]

\* job["status"], job["error"], job["completed_at"] and the log lines of one
\* return path
Finish(job, status, error, lines) ==
    [job EXCEPT !.status = status,
                !.error = error,
                !.completed_at = Aware(now),
                !.logs = job.logs \o lines]

NoDataset == [present |-> FALSE, v |-> EmptyDict]

\* Dataset(id=..., columns=columns, rows=rows, ...)
TextDataset(n, table) ==
    [id |-> DatasetId(n),
     job_id |-> JobId(n),
     strategy_used |-> "pdf_text",
     created_at |-> Aware(now),
     updated_at |-> Aware(now),
     columns |-> table.columns,
     rows |-> table.rows,
     confidence |-> IF Len(table.rows) > 0 THEN 8 ELSE 3,   \* tenths
     edit_history |-> <<>>]

\* Faulty variant of unimplemented: the run asks for OCR instead of failing
unimplemented_deferred(job, strategy) ==
    [job |-> Finish(job, "needs_ocr", "none", <<>>), dataset |-> NoDataset]

\* the branches of the strategies ocr and vision_llm
unimplemented(job, strategy) ==
    [job |-> Finish(job, "failed",
                    IF strategy = "ocr" THEN "OCR strategy not yet implemented"
                    ELSE "Vision LLM strategy not yet implemented", <<>>),
     dataset |-> NoDataset]

\* the "except Exception as e" block, entered with the job as it is when a
\* write raises
Failed(job) ==
    Finish(job, "failed", "write failed", <<LogLine("Error: write failed", 0)>>)

\* the writes of a run that raise: none, save_dataset, the first save_job
\* called, or every save_job called
Faults == {"none", "save_dataset", "save_job", "save_job twice"}

\* log(msg)
Logged(job, lines) == [job EXCEPT !.logs = @ \o lines]

\* the try block of run_extraction when no write raises: the job and the
\* dataset at the return, and the job as it is when save_dataset is called
run_plain(n, job, is_pdf, page_raises, requested, has_text, raw_len, table) ==
    LET seen == Logged(job, <<LogLine(IF has_text THEN "Page has text layer: True"
                                      ELSE "Page has text layer: False", 0)>>)
        read == Logged(seen,
                       (IF requested = "auto"
                        THEN <<LogLine("Auto-selected strategy: pdf_text", 0)>>
                        ELSE <<>>)
                       \o <<LogLine("Extracted characters", raw_len),
                            LogLine("Found text blocks", 0),
                            LogLine("Parsed rows with columns",
                                    <<Len(table.rows), Len(table.columns)>>)>>)
    IN  IF ~is_pdf
        THEN [job |-> Finish(job, "needs_ocr", "none",
                             <<LogLine("File is an image, would need OCR", 0)>>),
              dataset |-> NoDataset, read |-> job]
        ELSE IF page_raises
        THEN [job |-> Finish(job, "failed", "Page out of range",
                             <<LogLine("Error: Page out of range", 0)>>),
              dataset |-> NoDataset, read |-> job]
        ELSE IF requested = "auto" /\ ~has_text
        THEN [job |-> Finish(seen, "needs_ocr", "none",
                             <<LogLine("No text layer found, OCR or Vision LLM needed", 0)>>),
              dataset |-> NoDataset, read |-> job]
        ELSE IF requested = "pdf_text" /\ ~has_text
        THEN [job |-> Finish(seen, "needs_ocr", "PDF page has no extractable text", <<>>),
              dataset |-> NoDataset, read |-> job]
        ELSE IF requested \in {"auto", "pdf_text"}
        THEN [job |-> [Finish(read, "completed", "none",
                              <<LogLine("Extraction completed successfully", 0)>>)
                        EXCEPT !.strategy_used = "pdf_text"],
              dataset |-> [present |-> TRUE, v |-> TextDataset(n, table)],
              read |-> read]
        ELSE [job |-> unimplemented(seen, requested).job,
              dataset |-> NoDataset, read |-> job]

\* the run when the write named by fault raises: a write that raises stores
\* nothing, and the except block saves the job as failed unless its own
\* save_job raises as well
run_faulted(plain, in_except, fault) ==
    IF fault = "save_dataset" /\ plain.dataset.present
    THEN [job |-> Failed(plain.read), saved |-> TRUE,
          dataset |-> NoDataset, raised |-> FALSE]
    ELSE IF fault = "save_job" /\ ~in_except
    THEN [job |-> Failed(plain.job), saved |-> TRUE,
          dataset |-> plain.dataset, raised |-> FALSE]
    ELSE IF fault \in {"save_job", "save_job twice"}
    THEN [job |-> IF in_except THEN plain.job ELSE Failed(plain.job), saved |-> FALSE,
          dataset |-> plain.dataset, raised |-> TRUE]
    ELSE [job |-> plain.job, saved |-> TRUE,
          dataset |-> plain.dataset, raised |-> FALSE]

\* the table parsed from the text of the page
page_table(pagetext, clipped) ==
    parse_table_from_text(extract_page_text(pagetext, clipped))

\* run_extraction(file_path, file_id, page, bbox, strategy): the job state at
\* the end of the run, whether it was saved, the dataset saved, and whether
\* the run raised instead of returning
run_extraction(n, is_pdf, page_raises, requested, pagetext, clipped, fault) ==
    run_faulted(run_plain(n, NewJob(n, requested), is_pdf, page_raises, requested,
                          page_has_text(pagetext),
                          Len(extract_page_text(pagetext, clipped)),
                          page_table(pagetext, clipped)),
                is_pdf /\ page_raises, fault)

Strategies == {"auto", "pdf_text", "ocr", "vision_llm"}

\* the text layers of the uploaded pages
PageTexts ==
    { Cat(<<A, <<SP, SP>>, B, <<SP, SP>>, C, <<NL>>, B, <<SP, SP>>, ONE>>),
      Cat(<<ROW_ID, <<TAB>>, A, <<NL>>, B, <<TAB>>, ONE>>),
      Cat(<<A, <<COLON, SP>>, ONE>>) }

\* the page number of a request: in range, rejected by the router from the
\* page count of the metadata, or passed on and refused by the PDF reader
PageChecks == {"ok", "rejected", "raises"}

\* what the store and the response are after the run
run_stored(run) ==
    /\ jobs' = IF run.saved THEN Put(jobs, run.job.job_id, run.job) ELSE jobs
    /\ datasets' = IF run.dataset.present
                   THEN Put(datasets, run.dataset.v.id, run.dataset.v)
                   ELSE datasets
    /\ nextId' = nextId + 1
    /\ handled' = IF run.raised
                  THEN Response("start_extraction", 500, run.job.job_id)
                  ELSE Response("start_extraction", 202, run.job.job_id)

\* POST /extract: start_extraction; an exception that leaves run_extraction
\* is answered 500
start_extraction(found, is_pdf, page, requested, pagetext, clipped, fault) ==
    /\ nextId <= MaxIds
    /\ Cardinality(DOMAIN jobs) < MaxJobs
    /\ Cardinality(DOMAIN datasets) < MaxJobs
    /\ IF ~found
       THEN /\ handled' = Response("start_extraction", 404, NoId)
            /\ UNCHANGED <<datasets, jobs, nextId>>
       ELSE IF is_pdf /\ page = "rejected"
       THEN /\ handled' = Response("start_extraction", 400, NoId)
            /\ UNCHANGED <<datasets, jobs, nextId>>
       ELSE run_stored(run_extraction(nextId, is_pdf, page = "raises",
                                      requested, pagetext, clipped, fault))
    /\ UNCHANGED <<idents, now>>
    /\ UNCHANGED <<pvars, rvars, vvars>>

-----------------------------------------------------------------------------
(* routers/review.py: update_dataset, PUT /datasets/{dataset_id}           *)

NoneV == [t |-> "none", v |-> 0]

\* r.get("row_id")
RowIdOf(r) == IF ROW_ID \in DOMAIN r THEN r[ROW_ID] ELSE NoneV

RowIds(rows) == {RowIdOf(rows[i]) : i \in DOMAIN rows}

\* Faulty variant of ColumnChanges: the two differences are taken the other
\* way round
ColumnChanges_swapped(old, new) ==
    ("columns_added" :> (Range(old) \ Range(new)))
        @@ ("columns_removed" :> (Range(new) \ Range(old)))

\* changes["columns_added"], changes["columns_removed"]
ColumnChanges(old, new) ==
    ("columns_added" :> (Range(new) \ Range(old)))
        @@ ("columns_removed" :> (Range(old) \ Range(new)))

\* Faulty variant of RowChanges: rows_modified counts the submitted rows that
\* differ from the stored row of the same position
RowChanges_compared(old, new) ==
    ("rows_added" :> Cardinality(RowIds(new) \ RowIds(old)))
        @@ ("rows_removed" :> Cardinality(RowIds(old) \ RowIds(new)))
        @@ ("rows_modified" :>
                Cardinality({i \in DOMAIN new : i \notin DOMAIN old \/ old[i] # new[i]}))

\* changes["rows_added"], changes["rows_removed"], changes["rows_modified"]
RowChanges(old, new) ==
    ("rows_added" :> Cardinality(RowIds(new) \ RowIds(old)))
        @@ ("rows_removed" :> Cardinality(RowIds(old) \ RowIds(new)))
        @@ ("rows_modified" :> Len(new))

\* changes, as filled by the two "is not None" branches; list(set) is kept
\* as the set
Changes(dataset, columns, rows) ==
    (IF columns.present THEN ColumnChanges(dataset.columns, columns.v) ELSE EmptyDict)
        @@ (IF rows.present THEN RowChanges(dataset.rows, rows.v) ELSE EmptyDict)

\* EditHistoryEntry(timestamp=now, action="update", changes=changes)
HistoryEntry(changes) ==
    [timestamp |-> Aware(now), action |-> "update", changes |-> changes]

\* Faulty variant of Recorded: the history is rebuilt from the new entry alone
Recorded_overwriting(dataset, changes) ==
    IF DOMAIN changes # {}
    THEN [dataset EXCEPT !.edit_history = <<HistoryEntry(changes)>>,
                         !.updated_at = Aware(now)]
    ELSE dataset

\* Faulty variant of Recorded: the entry is written without the "if changes:" test
Recorded_unconditionally(dataset, changes) ==
    [dataset EXCEPT !.edit_history = Append(@, HistoryEntry(changes)),
                    !.updated_at = Aware(now)]

\* the "if changes:" block
Recorded(dataset, changes) ==
    IF DOMAIN changes # {}
    THEN [dataset EXCEPT !.edit_history = Append(@, HistoryEntry(changes)),
                         !.updated_at = Aware(now)]
    ELSE dataset

\* the dataset that update_dataset saves and returns
Updated(dataset, columns, rows) ==
    Recorded([dataset EXCEPT !.columns = IF columns.present THEN columns.v ELSE @,
                             !.rows = IF rows.present THEN rows.v ELSE @],
             Changes(dataset, columns, rows))

X == <<"x">>

ColumnUpdates == { <<>>, <<C, A, X>> }

RowUpdates ==
    { <<(ROW_ID :> IntV(2)) @@ (A :> StrV(B)) @@ (X :> StrV(<<>>)),
        (ROW_ID :> IntV(3)) @@ (A :> StrV(ONE)) @@ (X :> StrV(A))>> }

\* DatasetUpdate.columns, DatasetUpdate.rows: a list, or None
ColumnPayloads == {Absent} \cup {Given(c) : c \in ColumnUpdates}
RowPayloads == {Absent} \cup {Given(r) : r \in RowUpdates}

\* the ids a request can name: those stored and one that is not
DatasetIds == (DOMAIN datasets) \cup {DatasetId(0)}

\* Faulty variant of update_dataset: an unknown id is given a new record
update_dataset_upsert(dataset_id, columns, rows) ==
    LET blank == [id |-> dataset_id, job_id |-> NoId, strategy_used |-> "none",
                  created_at |-> Aware(now), updated_at |-> Aware(now),
                  columns |-> <<>>, rows |-> <<>>, confidence |-> 0,
                  edit_history |-> <<>>]
        loaded == IF dataset_id \in DOMAIN datasets THEN datasets[dataset_id] ELSE blank
    IN  /\ (columns.present \/ rows.present) => Len(loaded.edit_history) < MaxEdits
        /\ datasets' = Put(datasets, dataset_id, Updated(loaded, columns, rows))
        /\ handled' = [Response("update_dataset", 200, dataset_id)
                         EXCEPT !.columns = columns.present, !.rows = rows.present]
        /\ UNCHANGED <<jobs, idents, now, nextId>>
        /\ UNCHANGED <<pvars, rvars, vvars>>

update_dataset(dataset_id, columns, rows) ==
    /\ IF dataset_id \notin DOMAIN datasets
       THEN /\ handled' = [Response("update_dataset", 404, dataset_id)
                             EXCEPT !.columns = columns.present, !.rows = rows.present]
            /\ UNCHANGED datasets
       ELSE /\ (columns.present \/ rows.present) =>
                    Len(datasets[dataset_id].edit_history) < MaxEdits
            /\ datasets' = Put(datasets, dataset_id,
                               Updated(datasets[dataset_id], columns, rows))
            /\ handled' = [Response("update_dataset", 200, dataset_id)
                             EXCEPT !.columns = columns.present, !.rows = rows.present]
    /\ UNCHANGED <<jobs, idents, now, nextId>>
    /\ UNCHANGED <<pvars, rvars, vvars>>

-----------------------------------------------------------------------------
(* routers/identify.py: the two-phase vision flow                          *)

\* settings.identification_ttl, in clock readings
IdentificationTtl == 1

ITEM_1 == <<"i", "t", "e", "m", "-", "1">>
ITEM_2 == <<"i", "t", "e", "m", "-", "2">>
SALES == <<"S", "a", "l", "e", "s">>

\* selection.type is None
NoType == "none"

\* selection.bbox is None
NoBox == 0

\* the items the vision model detects, in the order returned: a titled chart
\* and a table without title
DetectedItems ==
    <<[item_id |-> ITEM_1, type |-> "bar_chart", title |-> StrV(SALES), bbox |-> 1],
      [item_id |-> ITEM_2, type |-> "table", title |-> NoneV, bbox |-> 2]>>

\* POST /extract/identify: identify_elements
identify_elements(configured, found, image, reply) ==
    /\ nextId <= MaxIds
    /\ IF ~configured
       THEN /\ handled' = Response("identify_elements", 503, NoId)
            /\ UNCHANGED <<idents, nextId>>
       ELSE IF ~found
       THEN /\ handled' = Response("identify_elements", 404, NoId)
            /\ UNCHANGED <<idents, nextId>>
       ELSE IF image \in {"page required", "page out of range"}
       THEN /\ handled' = Response("identify_elements", 400, NoId)
            /\ UNCHANGED <<idents, nextId>>
       ELSE IF image = "not rendered"
       THEN /\ handled' = Response("identify_elements", 500, NoId)
            /\ UNCHANGED <<idents, nextId>>
       ELSE IF reply = "RuntimeError"
       THEN /\ handled' = Response("identify_elements", 504, NoId)
            /\ UNCHANGED <<idents, nextId>>
       ELSE IF reply = "Exception"
       THEN /\ handled' = Response("identify_elements", 500, NoId)
            /\ UNCHANGED <<idents, nextId>>
       ELSE /\ idents' = Put(idents, IdentId(nextId),
                             [identification_id |-> IdentId(nextId),
                              detected_items |-> DetectedItems,
                              status |-> "awaiting_confirmation",
                              expires_at |-> Naive(now + IdentificationTtl)])
            /\ nextId' = nextId + 1
            /\ handled' = Response("identify_elements", 200, IdentId(nextId))
    /\ UNCHANGED <<datasets, jobs, now>>
    /\ UNCHANGED <<pvars, rvars, vvars>>

\* GET /extract/identify/{identification_id}: get_identification
get_identification(identification_id) ==
    /\ handled' =
          IF identification_id \notin DOMAIN idents
          THEN Response("get_identification", 404, identification_id)
          ELSE IF Later(Aware(now), idents[identification_id].expires_at) = "TypeError"
          THEN Response("get_identification", 500, identification_id)
          ELSE IF Later(Aware(now), idents[identification_id].expires_at) = "yes"
          THEN Response("get_identification", 410, identification_id)
          ELSE Response("get_identification", 200, identification_id)
    /\ UNCHANGED <<datasets, jobs, idents, now, nextId>>
    /\ UNCHANGED <<pvars, rvars, vvars>>

DigitValue(c) == CHOOSE d \in 0..9 : DigitChars[d + 1] = c

\* int(re.search(r'\d+', s).group()): the first run of digits of s, from k
RECURSIVE digits_from(_, _, _)
digits_from(s, k, acc) ==
    IF k > Len(s) \/ ~IsDigit(s[k]) THEN acc
    ELSE digits_from(s, k + 1, 10 * acc + DigitValue(s[k]))

\* the row_id the run stores for row idx (0-based) of an extracted dataset
StoredRowId(row, idx) ==
    LET raw_id == IF ROW_ID \in DOMAIN row THEN row[ROW_ID] ELSE IntV(idx + 1)
        first == IF raw_id.t = "str" /\ \E k \in DOMAIN raw_id.v : IsDigit(raw_id.v[k])
                 THEN CHOOSE k \in DOMAIN raw_id.v :
                        /\ IsDigit(raw_id.v[k])
                        /\ \A h \in 1..(k - 1) : ~IsDigit(raw_id.v[h])
                 ELSE 0
    IN  IF raw_id.t = "int" THEN raw_id
        ELSE IF first > 0 THEN IntV(digits_from(raw_id.v, first, 0))
        ELSE IntV(idx + 1)

\* Dataset(id=ds.dataset_id, job_id=f"job-vision-{ds.dataset_id}", ...)
VisionDataset(ds) ==
    [id |-> ds.dataset_id,
     job_id |-> <<"job-vision", ds.dataset_id>>,
     strategy_used |-> "vision_llm",
     created_at |-> Naive(now),
     updated_at |-> Naive(now),
     columns |-> ds.columns,
     rows |-> [i \in 1..Len(ds.rows) |->
                 DictSet(ds.rows[i], ROW_ID, StoredRowId(ds.rows[i], i - 1))],
     confidence |-> ds.confidence,
     edit_history |-> <<>>]

RECURSIVE PutAll(_, _)
PutAll(store, records) ==
    IF records = <<>> THEN store
    ELSE PutAll(Put(store, Head(records).id, Head(records)), Tail(records))

NEW_ == <<"n", "e", "w", "-">>
NEW_1 == NEW_ \o ONE
NEWS == <<"n", "e", "w", "s">>
MINE == <<"M", "i", "n", "e">>
UNTITLED == <<"U", "n", "t", "i", "t", "l", "e", "d">>
USER_ELEMENT ==
    <<"U", "s", "e", "r", "-", "s", "p", "e", "c", "i", "f", "i", "e", "d", " ", "e", "l", "e", "m", "e", "n", "t">>
MERGED ==
    <<"M", "e", "r", "g", "e", "d", " ", "e", "x", "t", "r", "a", "c", "t", "i", "o", "n">>
SOURCE == <<"S", "o", "u", "r", "c", "e">>
CATEGORY == <<"C", "a", "t", "e", "g", "o", "r", "y">>
source == <<"s", "o", "u", "r", "c", "e">>
Y == <<"y">>

\* str.startswith(prefix)
startswith(s, prefix) ==
    Len(s) >= Len(prefix) /\ SubSeq(s, 1, Len(prefix)) = prefix

\* bool(v) of None or a str
Truthy(v) == v # NoneV /\ v # StrV(<<>>)

\* a or b
Or(a, b) == IF Truthy(a) THEN a ELSE b

\* the last position of the list that holds item_id: {item.item_id: item ...}
Lookup(items, item_id) ==
    LET found == {k \in DOMAIN items : items[k].item_id = item_id}
    IN  IF found = {} THEN 0 ELSE Max(found)

\* Faulty variant of prompt_item: an existing item takes the bounding box of
\* the selection when it has one
prompt_item_boxed(selection, stored_items) ==
    LET k == Lookup(stored_items, selection.item_id)
    IN  IF startswith(selection.item_id, NEW_)
        THEN <<[item_id |-> selection.item_id,
                type |-> IF selection.type # NoType THEN selection.type ELSE "other",
                title |-> Or(selection.title, StrV(USER_ELEMENT)),
                bbox |-> selection.bbox]>>
        ELSE IF k = 0 THEN <<>>
        ELSE <<[item_id |-> selection.item_id,
                type |-> IF selection.type # NoType THEN selection.type
                         ELSE stored_items[k].type,
                title |-> Or(Or(selection.title, stored_items[k].title), StrV(UNTITLED)),
                bbox |-> IF selection.bbox # NoBox THEN selection.bbox
                         ELSE stored_items[k].bbox]>>

\* the entry of items_for_prompt for one selection: none when the id is
\* neither user-added nor among the stored items
prompt_item(selection, stored_items) ==
    LET k == Lookup(stored_items, selection.item_id)
    IN  IF startswith(selection.item_id, NEW_)
        THEN <<[item_id |-> selection.item_id,
                type |-> IF selection.type # NoType THEN selection.type ELSE "other",
                title |-> Or(selection.title, StrV(USER_ELEMENT)),
                bbox |-> selection.bbox]>>
        ELSE IF k = 0 THEN <<>>
        ELSE <<[item_id |-> selection.item_id,
                type |-> IF selection.type # NoType THEN selection.type
                         ELSE stored_items[k].type,
                title |-> Or(Or(selection.title, stored_items[k].title), StrV(UNTITLED)),
                bbox |-> stored_items[k].bbox]>>

\* items_for_prompt, the loop over the selections
RECURSIVE items_for_prompt(_, _)
items_for_prompt(items, stored_items) ==
    IF items = <<>> THEN <<>>
    ELSE prompt_item(Head(items), stored_items)
         \o items_for_prompt(Tail(items), stored_items)

\* {k: v for k, v in row.items() if k != "row_id"}
WithoutRowId(row) == [k \in (DOMAIN row) \ {ROW_ID} |-> row[k]]

\* f"r{i}"
RowTag(i) == StrV(<<"r">> \o str(i))

\* ",".join(parts)
RECURSIVE join(_, _)
join(parts, sep) ==
    IF parts = <<>> THEN <<>>
    ELSE IF Len(parts) = 1 THEN Head(parts)
    ELSE Head(parts) \o sep \o join(Tail(parts), sep)

\* the rows of the datasets before position k, counted
RECURSIVE rows_before(_, _)
rows_before(datasets_, k) ==
    IF k <= 1 THEN 0
    ELSE Len(datasets_[k - 1].rows) + rows_before(datasets_, k - 1)

\* merged_rows of _merge_datasets, from dataset k on: the keys of the row
\* itself are written after Source and Category
RECURSIVE merged_rows(_, _)
merged_rows(datasets_, k) ==
    IF k > Len(datasets_) THEN <<>>
    ELSE [i \in 1..Len(datasets_[k].rows) |->
            WithoutRowId(datasets_[k].rows[i])
              @@ (ROW_ID :> RowTag(rows_before(datasets_, k) + i))
              @@ (SOURCE :> StrV(datasets_[k].source_item_id))
              @@ (CATEGORY :> datasets_[k].title)]
         \o merged_rows(datasets_, k + 1)

\* all_columns: each name once, in the order of first appearance
RECURSIVE unique_columns(_, _)
unique_columns(all_columns, more) ==
    IF more = <<>> THEN all_columns
    ELSE unique_columns(IF Head(more) \in Range(all_columns) THEN all_columns
                        ELSE Append(all_columns, Head(more)),
                        Tail(more))

RECURSIVE sum_confidence(_)
sum_confidence(datasets_) ==
    IF datasets_ = <<>> THEN 0
    ELSE Head(datasets_).confidence.sum + sum_confidence(Tail(datasets_))

\* vision._merge_datasets; the confidence sum(...) / len(datasets) is kept
\* as the pair of the sum (in hundredths) and the count
_merge_datasets(dataset_id, datasets_) ==
    [dataset_id |-> dataset_id,
     source_item_id |->
        join([k \in 1..Len(datasets_) |-> datasets_[k].source_item_id], <<",">>),
     title |-> StrV(MERGED),
     type |-> "other",
     columns |->
        unique_columns(<<SOURCE, CATEGORY>>,
                       Cat([k \in 1..Len(datasets_) |-> datasets_[k].columns])),
     rows |-> merged_rows(datasets_, 1),
     source_bbox |-> NoBox,
     confidence |-> [sum |-> sum_confidence(datasets_), count |-> Len(datasets_)]]

\* ExtractedDataset(...) for extraction k of the reply; each row is
\* {"row_id": f"r{i + 1}", **row}, so a row_id of the row itself is kept
extracted_dataset(n, prompted, stored_items, extractions, k) ==
    LET item_id == extractions[k].item_id
        p == Lookup(prompted, item_id)
        o == Lookup(stored_items, item_id)
    IN  [dataset_id |-> DatasetId(n + k - 1),
         source_item_id |-> item_id,
         title |-> Or(Or(extractions[k].title,
                         IF p = 0 THEN NoneV ELSE prompted[p].title),
                      StrV(UNTITLED)),
         type |-> IF p = 0 THEN "other" ELSE prompted[p].type,
         columns |-> extractions[k].columns,
         rows |-> [i \in 1..Len(extractions[k].rows) |->
                     extractions[k].rows[i] @@ (ROW_ID :> RowTag(i))],
         source_bbox |-> IF o = 0 THEN NoBox ELSE stored_items[o].bbox,
         confidence |-> [sum |-> extractions[k].confidence, count |-> 1]]

\* the datasets built from the reply, before the merge option is looked at
built_datasets(n, prompted, stored_items, extractions) ==
    [k \in 1..Len(extractions) |->
        extracted_dataset(n, prompted, stored_items, extractions, k)]

\* if merge_datasets and len(datasets) > 1: datasets = [_merge_datasets(datasets)]
merge_option(n, options, datasets_) ==
    IF options.merge_datasets /\ Len(datasets_) > 1
    THEN <<_merge_datasets(DatasetId(n + Len(datasets_)), datasets_)>>
    ELSE datasets_

\* vision.extract_data(image_path, items, stored_items, options), given the
\* extractions of the model's reply; the granularity chooses the prompt and
\* nothing else
extract_data(n, items, stored_items, options, extractions) ==
    merge_option(n, options,
                 built_datasets(n, items_for_prompt(items, stored_items),
                                stored_items, extractions))

Granularities == {"annotated_only", "full", "full_with_source"}

\* ExtractionOptions()
DefaultOptions == [merge_datasets |-> FALSE, granularity |-> "full"]

\* ItemSelection(item_id=...)
Selection(item_id, title, type, bbox) ==
    [item_id |-> item_id, title |-> title, type |-> type, bbox |-> bbox]

\* what the vision model extracts for item-1: one table
Extractions ==
    { <<[item_id |-> ITEM_1, title |-> NoneV, columns |-> <<X>>,
         rows |-> <<(X :> StrV(ONE))>>,
         confidence |-> 90]>> }

\* the loop "for ds in extracted_datasets" and the response of the run
run_saved(extracted) ==
    /\ datasets' = PutAll(datasets, [k \in 1..Len(extracted) |-> VisionDataset(extracted[k])])
    /\ nextId' = nextId + Len(extracted) + 1
    /\ handled' = Response("extract_run", 200, JobId(nextId + Len(extracted)))

\* POST /extract/run: run_extraction of the identify router
extract_run(configured, identification_id, unboxed, image_exists, reply, extractions) ==
    /\ nextId <= MaxIds
    /\ IF ~configured
       THEN /\ handled' = Response("extract_run", 503, identification_id)
            /\ UNCHANGED <<datasets, nextId>>
       ELSE IF identification_id \notin DOMAIN idents
       THEN /\ handled' = Response("extract_run", 404, identification_id)
            /\ UNCHANGED <<datasets, nextId>>
       ELSE IF Later(Aware(now), idents[identification_id].expires_at) = "TypeError"
       THEN /\ handled' = Response("extract_run", 500, identification_id)
            /\ UNCHANGED <<datasets, nextId>>
       ELSE IF Later(Aware(now), idents[identification_id].expires_at) = "yes"
       THEN /\ handled' = Response("extract_run", 410, identification_id)
            /\ UNCHANGED <<datasets, nextId>>
       ELSE IF unboxed     \* an item "new-..." without bbox
       THEN /\ handled' = Response("extract_run", 400, identification_id)
            /\ UNCHANGED <<datasets, nextId>>
       ELSE IF ~image_exists
       THEN /\ handled' = Response("extract_run", 500, identification_id)
            /\ UNCHANGED <<datasets, nextId>>
       ELSE IF reply = "RuntimeError"
       THEN /\ handled' = Response("extract_run", 504, identification_id)
            /\ UNCHANGED <<datasets, nextId>>
       ELSE IF reply = "Exception"
       THEN /\ handled' = Response("extract_run", 500, identification_id)
            /\ UNCHANGED <<datasets, nextId>>
       ELSE run_saved(extract_data(nextId, <<Selection(ITEM_1, NoneV, NoType, NoBox)>>,
                                    idents[identification_id].detected_items,
                                    DefaultOptions, extractions))
    /\ UNCHANGED <<jobs, idents, now>>
    /\ UNCHANGED <<pvars, rvars, vvars>>

-----------------------------------------------------------------------------
(* The service: requests in any order, the clock running                   *)

Tick ==
    /\ now < MaxClock
    /\ now' = now + 1
    /\ UNCHANGED <<datasets, jobs, idents, nextId, handled>>
    /\ UNCHANGED <<pvars, rvars, vvars>>

Init ==
    /\ InitStore
    /\ text = <<>>
    /\ nlines = 0
    /\ parsed = NotParsed
    /\ ppc = "input"

Next ==
    \/ Tick
    \/ \E found, is_pdf, clipped \in BOOLEAN, page \in PageChecks,
          requested \in Strategies, pagetext \in PageTexts, fault \in Faults :
            start_extraction(found, is_pdf, page, requested, pagetext, clipped, fault)
    \/ \E dataset_id \in DatasetIds, columns \in ColumnPayloads, rows \in RowPayloads :
            update_dataset(dataset_id, columns, rows)
    \/ \E configured, found \in BOOLEAN,
          image \in {"image", "page required", "page out of range", "not rendered"},
          reply \in {"RuntimeError", "Exception", "items"} :
            identify_elements(configured, found, image, reply)
    \/ \E configured, unboxed, image_exists \in BOOLEAN,
          identification_id \in (DOMAIN idents) \cup {IdentId(0)},
          reply \in {"RuntimeError", "Exception", "tables"},
          extractions \in Extractions :
            extract_run(configured, identification_id, unboxed,
                        image_exists, reply, extractions)

Spec == Init /\ [][Next]_vars

-----------------------------------------------------------------------------
(* routers/review.py: update_dataset in two server processes over one      *)
(* storage directory. Inside one process the handler runs from its load to *)
(* its save without suspending; two processes interleave at the two file   *)
(* operations, load_dataset and save_dataset.                              *)

\* Faulty variant of update_save: the record is read again and the edit is
\* applied to what is stored at the time of the write
update_save_reloading(c) ==
    /\ calls[c].pc = "loaded"
    /\ datasets' = Put(datasets, calls[c].dataset_id,
                       Updated(datasets[calls[c].dataset_id],
                               calls[c].columns, calls[c].rows))
    /\ calls' = [calls EXCEPT ![c].pc = "returned", ![c].code = 200]
    /\ handled' = [Response("update_dataset", 200, calls[c].dataset_id)
                     EXCEPT !.columns = calls[c].columns.present,
                            !.rows = calls[c].rows.present]
    /\ UNCHANGED <<jobs, idents, now, nextId>>
    /\ UNCHANGED <<pvars, vvars>>

\* dataset = extractor.load_dataset(dataset_id), the 404 of an unknown id,
\* and the new record built in memory from the record loaded
update_load(c, dataset_id, columns, rows) ==
    /\ calls[c].pc = "idle"
    /\ IF dataset_id \notin DOMAIN datasets
       THEN /\ calls' = [calls EXCEPT ![c] = [pc |-> "returned", code |-> 404,
                                              dataset_id |-> dataset_id,
                                              columns |-> columns, rows |-> rows]]
            /\ handled' = [Response("update_dataset", 404, dataset_id)
                             EXCEPT !.columns = columns.present, !.rows = rows.present]
       ELSE /\ calls' = [calls EXCEPT ![c] =
                            [pc |-> "loaded", code |-> 0,
                             dataset_id |-> dataset_id,
                             columns |-> columns, rows |-> rows,
                             loaded |-> datasets[dataset_id],
                             dataset |-> Updated(datasets[dataset_id], columns, rows)]]
            /\ UNCHANGED handled
    /\ UNCHANGED <<datasets, jobs, idents, now, nextId>>
    /\ UNCHANGED <<pvars, vvars>>

\* extractor.save_dataset(dataset); return dataset
update_save(c) ==
    /\ calls[c].pc = "loaded"
    /\ datasets' = Put(datasets, calls[c].dataset_id, calls[c].dataset)
    /\ calls' = [calls EXCEPT ![c].pc = "returned", ![c].code = 200]
    /\ handled' = [Response("update_dataset", 200, calls[c].dataset_id)
                     EXCEPT !.columns = calls[c].columns.present,
                            !.rows = calls[c].rows.present]
    /\ UNCHANGED <<jobs, idents, now, nextId>>
    /\ UNCHANGED <<pvars, vvars>>

\* the store holds the job and the dataset of one completed run
StoreAfter(run) ==
    /\ jobs = Put(EmptyDict, run.job.job_id, run.job)
    /\ datasets = Put(EmptyDict, run.dataset.v.id, run.dataset.v)
    /\ handled = Response("start_extraction", 202, run.job.job_id)

\* the store after one completed text-layer run, no request under way
InitRace ==
    /\ now = 0
    /\ \E pagetext \in {t \in PageTexts : page_has_text(t)} :
          StoreAfter(run_extraction(1, TRUE, FALSE, "auto", pagetext, FALSE, "none"))
    /\ idents = EmptyDict
    /\ nextId = 2
    /\ calls = NoCalls
    /\ vision_call = NoVisionCall
    /\ vision_result = NoVisionResult
    /\ text = <<>>
    /\ nlines = 0
    /\ parsed = NotParsed
    /\ ppc = "input"

NextRace ==
    \/ Tick
    \/ \E c \in Callers, dataset_id \in DatasetIds,
          columns \in ColumnPayloads, rows \in RowPayloads :
            update_load(c, dataset_id, columns, rows)
    \/ \E c \in Callers : update_save(c)

SpecRace == InitRace /\ [][NextRace]_vars

-----------------------------------------------------------------------------
(* routers/identify.py alone: the identifications over a longer time       *)

MaxWait == 3       \* clock readings of the identification flow

\* time passes between two requests
Wait ==
    /\ now < MaxWait
    /\ now' = now + 1
    /\ UNCHANGED <<datasets, jobs, idents, nextId, handled>>
    /\ UNCHANGED <<pvars, rvars, vvars>>

NextIdentify ==
    \/ Wait
    \/ \E configured, found \in BOOLEAN,
          image \in {"image", "page required", "page out of range", "not rendered"},
          reply \in {"RuntimeError", "Exception", "items"} :
            identify_elements(configured, found, image, reply)
    \/ \E identification_id \in (DOMAIN idents) \cup {IdentId(0)} :
            get_identification(identification_id)
    \/ \E configured, unboxed, image_exists \in BOOLEAN,
          identification_id \in (DOMAIN idents) \cup {IdentId(0)},
          reply \in {"RuntimeError", "Exception", "tables"},
          extractions \in Extractions :
            extract_run(configured, identification_id, unboxed,
                        image_exists, reply, extractions)

SpecIdentify == Init /\ [][NextIdentify]_vars

-----------------------------------------------------------------------------
(* services/vision.py: extract_data on its own, for the selections, the    *)
(* options and the replies of the model below                              *)

\* request.items
Selections ==
    { <<Selection(ITEM_1, NoneV, NoType, NoBox)>>,
      <<Selection(ITEM_1, StrV(MINE), "table", 9)>>,     \* every field overridden
      <<Selection(ITEM_1, StrV(<<>>), NoType, 9)>>,      \* title ""
      <<Selection(ITEM_2, NoneV, NoType, NoBox)>>,       \* no title anywhere
      <<Selection(NEW_1, NoneV, NoType, 5)>>,            \* user-added
      <<Selection(NEWS, StrV(MINE), NoType, 5)>>,        \* unknown id
      <<Selection(ITEM_1, NoneV, NoType, NoBox),
        Selection(ITEM_2, StrV(MINE), NoType, NoBox)>> }

\* one entry of data["extractions"]
Extraction(item_id, title, columns, rows, confidence) ==
    [item_id |-> item_id, title |-> title, columns |-> columns,
     rows |-> rows, confidence |-> confidence]

\* data["extractions"] of the model's reply
Replies ==
    { <<>>,
      <<Extraction(ITEM_1, NoneV, <<X>>, <<(X :> StrV(ONE))>>, 90)>>,
      <<Extraction(NEW_1, NoneV, <<X>>, <<(X :> StrV(ONE))>>, 90)>>,
      \* a row that has a row_id of its own
      <<Extraction(ITEM_1, NoneV, <<X>>,
                   <<(ROW_ID :> StrV(<<"r", "7">>)) @@ (X :> StrV(ONE))>>, 90)>>,
      \* the source column of full_with_source
      <<Extraction(ITEM_1, NoneV, <<X, source>>,
                   <<(X :> StrV(ONE)) @@ (source :> StrV(A))>>, 90)>>,
      \* two tables, disjoint columns
      <<Extraction(ITEM_1, NoneV, <<X>>, <<(X :> StrV(ONE))>>, 90),
        Extraction(ITEM_2, StrV(SALES), <<Y>>, <<(Y :> StrV(ONE))>>, 80)>>,
      \* two tables, a shared column, three rows
      <<Extraction(ITEM_1, NoneV, <<X, Y>>,
                   <<(X :> StrV(ONE)) @@ (Y :> StrV(A)),
                     (X :> StrV(B)) @@ (Y :> StrV(<<>>))>>, 90),
        Extraction(ITEM_2, NoneV, <<Y>>, <<(Y :> StrV(ONE))>>, 85)>>,
      \* two tables with a column Category, as in the prompt's example
      <<Extraction(ITEM_1, NoneV, <<CATEGORY, X>>,
                   <<(CATEGORY :> StrV(A)) @@ (X :> StrV(ONE))>>, 90),
        Extraction(ITEM_2, NoneV, <<CATEGORY, X>>,
                   <<(CATEGORY :> StrV(B)) @@ (X :> StrV(ONE))>>, 80)>> }

\* extract_data is about to be called
InitVision ==
    /\ \E items \in Selections, merge_datasets \in BOOLEAN,
          granularity \in Granularities, extractions \in Replies :
            vision_call = [called |-> TRUE, items |-> items,
                           stored_items |-> DetectedItems,
                           options |-> [merge_datasets |-> merge_datasets,
                                        granularity |-> granularity],
                           extractions |-> extractions]
    /\ vision_result = NoVisionResult
    /\ calls = NoCalls
    /\ datasets = EmptyDict
    /\ jobs = EmptyDict
    /\ idents = EmptyDict
    /\ now = 0
    /\ nextId = 1
    /\ handled = NoRequest
    /\ text = <<>>
    /\ nlines = 0
    /\ parsed = NotParsed
    /\ ppc = "input"

\* extracted_datasets = await vision.extract_data(...)
call_extract_data ==
    /\ vision_call.called
    /\ ~vision_result.returned
    /\ vision_result' =
          [returned |-> TRUE,
           prompt |-> items_for_prompt(vision_call.items, vision_call.stored_items),
           datasets |-> extract_data(nextId, vision_call.items, vision_call.stored_items,
                                     vision_call.options, vision_call.extractions)]
    /\ UNCHANGED vision_call
    /\ UNCHANGED <<svars, pvars, rvars>>

NextVision == call_extract_data

SpecVision == InitVision /\ [][NextVision]_vars

-----------------------------------------------------------------------------
(* Properties of the parser, over SpecParse                                *)

\* the non-empty lines of the input, trimmed
InLines == text_lines(text)

NonBlank(l) == \E k \in DOMAIN l : ~IsSpace(l[k])

\* the number of pieces between newlines that hold a non-blank character
NonEmptyLineCount ==
    LET raw == split(text, NL)
    IN  Cardinality({i \in DOMAIN raw : NonBlank(raw[i])})

\* every line has at least one tab and all lines have the same tab count
TabPre(ls) ==
    LET n == [i \in DOMAIN ls |-> count(ls[i], TAB)]
    IN  /\ \A i \in DOMAIN ls : n[i] >= 1
        /\ \A i, j \in DOMAIN ls : n[i] = n[j]

\* every line has more than one pipe
PipePre(ls) == \A i \in DOMAIN ls : count(ls[i], PIPE) > 1

\* token counts after the split on runs of whitespace: minimum above 1,
\* spread at most 1
SpacePre(ls) ==
    LET n == [i \in DOMAIN ls |-> Len(space_split(ls[i]))]
    IN  /\ \A i \in DOMAIN ls : n[i] > 1
        /\ \A i, j \in DOMAIN ls : n[i] - n[j] <= 1

\* the positions, in input order, of the lines matching label: value
RECURSIVE MatchingFrom(_, _)
MatchingFrom(ls, i) ==
    IF i > Len(ls) THEN <<>>
    ELSE (IF kv_matches(ls[i]) THEN <<i>> ELSE <<>>) \o MatchingFrom(ls, i + 1)

Matching(ls) == MatchingFrom(ls, 1)

IsTable(t) ==
    /\ DOMAIN t.columns = 1..Len(t.columns)
    /\ DOMAIN t.rows = 1..Len(t.rows)
    /\ \A i \in DOMAIN t.rows : ROW_ID \in DOMAIN t.rows[i]

\* C1: parse_table_from_text returns a (columns, rows) pair for every input,
\* and empty columns and empty rows when no line has a non-blank character.
C1_AlwaysReturns ==
    ppc = "done" =>
        /\ parsed.scheme \in {"empty", "tab", "pipe", "space", "kv", "text"}
        /\ IsTable(parsed)
        /\ (\A k \in DOMAIN text : IsSpace(text[k])) =>
                (parsed.columns = <<>> /\ parsed.rows = <<>>)

C1_Witness ==
    /\ ppc = "done"
    /\ nlines >= 2
    /\ SP \in Range(text)
    /\ \A k \in DOMAIN text : IsSpace(text[k])
    /\ parsed.columns = <<>>
    /\ parsed.rows = <<>>

\* C2: the scheme is the first, in the order tab, pipe, multi-space,
\* key-value, fallback, whose precondition holds; when the tab and the pipe
\* preconditions both hold the result is the tab-delimited parse.
C2_FirstMatch ==
    ppc = "done" =>
        LET ls == InLines
        IN  ls # <<>> =>
            /\ parsed.scheme =
                  IF TabPre(ls) THEN "tab"
                  ELSE IF PipePre(ls) THEN "pipe"
                  ELSE IF SpacePre(ls) THEN "space"
                  ELSE IF Len(Matching(ls)) >= 2 THEN "kv"
                  ELSE "text"
            /\ (TabPre(ls) /\ PipePre(ls)) =>
                  LET t == _parse_delimited(ls, TAB)
                  IN  parsed.columns = t.columns /\ parsed.rows = t.rows

C2_Witness ==
    /\ ppc = "done"
    /\ Len(InLines) >= 2
    /\ TabPre(InLines)
    /\ PipePre(InLines)
    /\ parsed.scheme = "tab"
    /\ parsed.columns # _parse_delimited(InLines, PIPE).columns

\* the trimmed cells of a line, cut at tabs
TabCells(l) ==
    LET cells == split(l, TAB)
    IN  [j \in 1..Len(cells) |-> strip(cells[j])]

\* C3 as stated: under the tab scheme the columns are the trimmed cells of
\* the first line, and row i holds, under the j-th column, the j-th trimmed
\* cell of line i + 1.
C3_AsStated ==
    ppc = "done" =>
        LET ls == InLines
            cells == [i \in DOMAIN ls |-> TabCells(ls[i])]
        IN  (ls # <<>> /\ TabPre(ls)) =>
            /\ parsed.columns = cells[1]
            /\ Len(parsed.rows) = Len(ls) - 1
            /\ \A i \in DOMAIN parsed.rows : \A j \in DOMAIN parsed.columns :
                  /\ parsed.columns[j] \in DOMAIN parsed.rows[i]
                  /\ parsed.rows[i][parsed.columns[j]] = StrV(cells[i + 1][j])

\* C3 (amended): under the tab scheme the columns are the trimmed cells of
\* the first line, an empty cell at position j replaced by Column_j; row i
\* comes from line i + 1 and holds, under each column name, the trimmed cell
\* at the last position that carries that name.
C3_TabTable ==
    ppc = "done" =>
        LET ls == InLines
            cells == [i \in DOMAIN ls |-> TabCells(ls[i])]
        IN  (ls # <<>> /\ TabPre(ls)) =>
            /\ Len(parsed.columns) = Len(cells[1])
            /\ \A j \in DOMAIN parsed.columns :
                  parsed.columns[j] =
                      IF cells[1][j] # <<>> THEN cells[1][j] ELSE ColumnName(j)
            /\ Len(parsed.rows) = Len(ls) - 1
            /\ \A i \in DOMAIN parsed.rows : \A j \in DOMAIN parsed.columns :
                  LET last == Max({m \in DOMAIN parsed.columns :
                                      parsed.columns[m] = parsed.columns[j]})
                  IN  /\ parsed.columns[j] \in DOMAIN parsed.rows[i]
                      /\ parsed.rows[i][parsed.columns[j]] = StrV(cells[i + 1][last])

C3_Witness ==
    /\ ppc = "done"
    /\ Len(InLines) = 3
    /\ TabPre(InLines)
    /\ TabCells(InLines[1])[2] = <<>>
    /\ Len(parsed.rows) = 2
    /\ parsed.columns[2] = ColumnName(2)
    /\ parsed.rows[2][parsed.columns[1]] = StrV(TabCells(InLines[3])[1])

\* C4: the number of rows is the number of non-empty lines minus one under
\* the tab and pipe schemes, the number of lines matching label: value
\* under the key-value scheme, and the number of non-empty lines under the
\* Text fallback.
C4_RowCount ==
    ppc = "done" =>
        /\ parsed.scheme \in {"tab", "pipe"} =>
              Len(parsed.rows) = NonEmptyLineCount - 1
        /\ parsed.scheme = "kv" =>
              LET ls == InLines
              IN  Len(parsed.rows) = Cardinality({i \in DOMAIN ls : kv_matches(ls[i])})
        /\ parsed.scheme = "text" => Len(parsed.rows) = NonEmptyLineCount

C4_Witness ==
    /\ ppc = "done"
    /\ parsed.scheme = "pipe"
    /\ NonEmptyLineCount = 3
    /\ Len(parsed.rows) = 2

\* C5: under the tab, pipe, multi-space and key-value schemes the row_id of
\* the k-th row is the integer k, whatever the text holds.
C5_RowIdByPosition ==
    (ppc = "done" /\ parsed.scheme \in {"tab", "pipe", "space", "kv"}) =>
        \A k \in DOMAIN parsed.rows : parsed.rows[k][ROW_ID] = IntV(k)

\* no token starts with a digit: the line is taken as the header of a
\* multi-space table
Promoted(tokens) == \A k \in DOMAIN tokens : ~IsDigit(tokens[k][1])

\* C6: in a multi-space table no data line is dropped, every row has a
\* value for every column, and a line with fewer tokens than there are
\* columns carries the empty string in the columns it does not reach.
C6_RaggedRows ==
    (ppc = "done" /\ parsed.scheme = "space") =>
        LET ls == InLines
            tokens == [i \in DOMAIN ls |-> space_split(ls[i])]
            skip == IF Promoted(tokens[1]) THEN 1 ELSE 0
        IN  /\ Len(parsed.rows) = Len(ls) - skip
            /\ \A i \in DOMAIN parsed.rows : \A j \in DOMAIN parsed.columns :
                  /\ parsed.columns[j] \in DOMAIN parsed.rows[i]
                  /\ (\A m \in DOMAIN parsed.columns :
                          parsed.columns[m] = parsed.columns[j] =>
                              m > Len(tokens[i + skip])) =>
                        parsed.rows[i][parsed.columns[j]] = StrV(<<>>)

C6_Witness ==
    /\ ppc = "done"
    /\ parsed.scheme = "space"
    /\ Promoted(space_split(InLines[1]))
    /\ Len(parsed.columns) = 3
    /\ \E i \in DOMAIN parsed.rows :
          /\ Len(space_split(InLines[i + 1])) = 2
          /\ parsed.rows[i][parsed.columns[1]] = StrV(space_split(InLines[i + 1])[1])
          /\ parsed.rows[i][parsed.columns[3]] = StrV(<<>>)

\* the first colon of a line, 0 when it has none
FirstColon(l) ==
    IF COLON \in Range(l) THEN Min({k \in DOMAIN l : l[k] = COLON}) ELSE 0

\* the first colon of a line that is neither its first nor its last character
FirstInnerColon(l) ==
    Min({k \in 2..(Len(l) - 1) : l[k] = COLON})

KvRow(i, l, c) ==
    (ROW_ID :> IntV(i))
        @@ (KEY :> StrV(strip(SubSeq(l, 1, c - 1))))
        @@ (VALUE :> StrV(strip(SubSeq(l, c + 1, Len(l)))))

NoEarlierScheme(ls) == ls # <<>> /\ ~TabPre(ls) /\ ~PipePre(ls) /\ ~SpacePre(ls)

FallbackTable(ls) ==
    /\ parsed.columns = <<TEXT>>
    /\ parsed.rows = [i \in 1..Len(ls) |->
                        (ROW_ID :> IntV(i)) @@ (TEXT :> StrV(ls[i]))]

\* C7 as stated: with no earlier scheme and at least two matching lines the
\* result is Key, Value with one row per matching line, Key the trimmed text
\* before the first colon and Value the trimmed remainder; with fewer
\* matches it is the Text fallback.
C7_AsStated ==
    ppc = "done" =>
        LET ls == InLines
            m == Matching(ls)
        IN  NoEarlierScheme(ls) =>
            IF Len(m) >= 2
            THEN /\ parsed.columns = <<KEY, VALUE>>
                 /\ Len(parsed.rows) = Len(m)
                 /\ \A i \in DOMAIN parsed.rows :
                      parsed.rows[i] = KvRow(i, ls[m[i]], FirstColon(ls[m[i]]))
            ELSE FallbackTable(ls)

\* C7 (amended): as stated, except that the label ends before the first
\* colon that is neither the first nor the last character of the line.
C7_KeyValue ==
    ppc = "done" =>
        LET ls == InLines
            m == Matching(ls)
        IN  NoEarlierScheme(ls) =>
            IF Len(m) >= 2
            THEN /\ parsed.columns = <<KEY, VALUE>>
                 /\ Len(parsed.rows) = Len(m)
                 /\ \A i \in DOMAIN parsed.rows :
                      parsed.rows[i] = KvRow(i, ls[m[i]], FirstInnerColon(ls[m[i]]))
            ELSE FallbackTable(ls)

C7_Witness ==
    /\ ppc = "done"
    /\ parsed.scheme = "kv"
    /\ Len(InLines) = 3
    /\ Len(parsed.rows) = 2
    /\ Matching(InLines) = <<1, 3>>
    /\ InLines[3][1] = COLON
    /\ parsed.rows[2][ROW_ID] = IntV(2)

-----------------------------------------------------------------------------
(* Properties of the dataset store, over Spec                              *)

RowKeysWithinColumns(d) ==
    \A i \in DOMAIN d.rows : DOMAIN d.rows[i] \subseteq Range(d.columns) \cup {ROW_ID}

\* C8: in every stored dataset, after any sequence of extraction runs and
\* update_dataset calls, the keys of every row are among the dataset's
\* columns and row_id.
C8_RowKeysWithinColumns ==
    \A id \in DOMAIN datasets : RowKeysWithinColumns(datasets[id])

\* the step is an update_dataset call on the stored dataset id; the tests on
\* the response repeat what update_dataset sets
UpdateStep(id, columns, rows) ==
    /\ id \in DOMAIN datasets
    /\ handled'.op = "update_dataset"
    /\ handled'.id = id
    /\ handled'.columns = columns.present
    /\ handled'.rows = rows.present
    /\ update_dataset(id, columns, rows)

\* the sub-diffs the entry of a call must hold, from the record read
ExpectedChanges(d, columns, rows) ==
    [k \in (IF columns.present THEN {"columns_added", "columns_removed"} ELSE {})
           \cup (IF rows.present THEN {"rows_added", "rows_removed", "rows_modified"}
                 ELSE {}) |->
        CASE k = "columns_added" ->
                {c \in Range(columns.v) : \A j \in DOMAIN d.columns : d.columns[j] # c}
          [] k = "columns_removed" ->
                {c \in Range(d.columns) : \A j \in DOMAIN columns.v : columns.v[j] # c}
          [] k = "rows_added" -> Cardinality(RowIds(rows.v) \ RowIds(d.rows))
          [] k = "rows_removed" -> Cardinality(RowIds(d.rows) \ RowIds(rows.v))
          [] OTHER -> Len(rows.v)]

\* C9: edit_history is append-only: no step removes a dataset or removes,
\* changes or reorders an entry of its history; an update_dataset call that
\* carries columns and/or rows appends exactly one entry, with action
\* "update" and the sub-diffs of the fields present as its changes; no other
\* step adds an entry.
C9_HistoryAppendOnly ==
    [][\A id \in DOMAIN datasets :
          /\ id \in DOMAIN datasets'
          /\ LET old == datasets[id].edit_history
                 new == datasets'[id].edit_history
             IN  /\ Len(new) >= Len(old)
                 /\ SubSeq(new, 1, Len(old)) = old
                 /\ \A columns \in ColumnPayloads, rows \in RowPayloads :
                      UpdateStep(id, columns, rows) =>
                        IF columns.present \/ rows.present
                        THEN /\ Len(new) = Len(old) + 1
                             /\ new[Len(new)].action = "update"
                             /\ new[Len(new)].changes =
                                    ExpectedChanges(datasets[id], columns, rows)
                        ELSE new = old
                 /\ (\A columns \in ColumnPayloads, rows \in RowPayloads :
                        ~UpdateStep(id, columns, rows)) => new = old]_vars

\* two calls that carried a field have been served on one dataset: its
\* history holds their two entries
C9_Witness ==
    /\ handled.op = "update_dataset"
    /\ handled.code = 200
    /\ handled.columns \/ handled.rows
    /\ handled.id \in DOMAIN datasets
    /\ Len(datasets[handled.id].edit_history) = 2
    /\ datasets[handled.id].edit_history[1] # datasets[handled.id].edit_history[2]

\* C10: an update_dataset call with neither columns nor rows appends no
\* history entry and leaves updated_at, columns, rows and edit_history of the
\* stored dataset as they were.
C10_EmptyUpdate ==
    [][\A id \in DOMAIN datasets :
          UpdateStep(id, Absent, Absent) =>
            /\ id \in DOMAIN datasets'
            /\ datasets'[id].edit_history = datasets[id].edit_history
            /\ datasets'[id].updated_at = datasets[id].updated_at
            /\ datasets'[id].columns = datasets[id].columns
            /\ datasets'[id].rows = datasets[id].rows]_vars

\* an empty update has been served on an edited dataset, at a clock reading
\* later than its updated_at
C10_Witness ==
    /\ handled.op = "update_dataset"
    /\ handled.code = 200
    /\ ~handled.columns
    /\ ~handled.rows
    /\ handled.id \in DOMAIN datasets
    /\ Len(datasets[handled.id].edit_history) = 1
    /\ datasets[handled.id].updated_at.t < now

\* the entry a call has just appended to the history of dataset id
LastEntry(id) ==
    datasets'[id].edit_history[Len(datasets'[id].edit_history)]

\* C11: an update that carries columns records columns_added = the new names
\* that were not columns and columns_removed = the old names that are no
\* longer columns, stores the submitted sequence as it was sent, and, when it
\* carries no rows, leaves the rows as they were.
C11_ColumnsUpdate ==
    [][\A id \in DOMAIN datasets, columns \in ColumnPayloads, rows \in RowPayloads :
          (columns.present /\ UpdateStep(id, columns, rows)) =>
            LET old == datasets[id].columns
            IN  /\ LastEntry(id).changes["columns_added"] =
                     {columns.v[j] : j \in {j \in DOMAIN columns.v :
                                              \A h \in DOMAIN old : old[h] # columns.v[j]}}
                /\ LastEntry(id).changes["columns_removed"] =
                     {old[h] : h \in {h \in DOMAIN old :
                                        \A j \in DOMAIN columns.v : columns.v[j] # old[h]}}
                /\ datasets'[id].columns = columns.v
                /\ ~rows.present => datasets'[id].rows = datasets[id].rows]_vars

\* columns alone were sent to a parsed table: one name added, one removed,
\* the order as sent, the rows still there
C11_Witness ==
    /\ handled.op = "update_dataset"
    /\ handled.code = 200
    /\ handled.columns /\ ~handled.rows
    /\ handled.id \in DOMAIN datasets
    /\ LET d == datasets[handled.id]
       IN  /\ d.columns = <<C, A, X>>
           /\ Len(d.edit_history) = 1
           /\ d.edit_history[1].changes["columns_added"] = {X}
           /\ d.edit_history[1].changes["columns_removed"] = {B}
           /\ Len(d.rows) > 0

\* C12: an update that carries rows records rows_added = the number of new
\* row_ids that were not stored, rows_removed = the number of stored row_ids
\* that are not sent, rows_modified = the number of rows sent, and stores
\* exactly the rows sent.
C12_RowsUpdate ==
    [][\A id \in DOMAIN datasets, columns \in ColumnPayloads, rows \in RowPayloads :
          (rows.present /\ UpdateStep(id, columns, rows)) =>
            LET old_ids == {RowIdOf(datasets[id].rows[i]) : i \in DOMAIN datasets[id].rows}
                new_ids == {RowIdOf(rows.v[i]) : i \in DOMAIN rows.v}
            IN  /\ LastEntry(id).changes["rows_added"] =
                     Cardinality({r \in new_ids : r \notin old_ids})
                /\ LastEntry(id).changes["rows_removed"] =
                     Cardinality({r \in old_ids : r \notin new_ids})
                /\ LastEntry(id).changes["rows_modified"] = Len(rows.v)
                /\ datasets'[id].rows = rows.v]_vars

\* the same two rows were sent twice: the second entry counts no row added
\* or removed and two rows modified, though no row changed
C12_Witness ==
    /\ handled.op = "update_dataset"
    /\ handled.code = 200
    /\ handled.rows
    /\ handled.id \in DOMAIN datasets
    /\ LET d == datasets[handled.id]
       IN  /\ Len(d.edit_history) = 2
           /\ "rows_added" \in DOMAIN d.edit_history[1].changes
           /\ d.edit_history[1].changes["rows_added"] = 2
           /\ d.edit_history[1].changes["rows_removed"] = 1
           /\ "rows_added" \in DOMAIN d.edit_history[2].changes
           /\ d.edit_history[2].changes["rows_added"] = 0
           /\ d.edit_history[2].changes["rows_removed"] = 0
           /\ d.edit_history[2].changes["rows_modified"] = 2
           /\ Len(d.rows) = 2

\* a >= b on the two timestamps of a record
NotBefore(a, b) == a.aware = b.aware /\ a.t >= b.t

\* C13: every stored dataset has updated_at >= created_at, and every
\* update_dataset call that carries columns or rows leaves updated_at
\* strictly greater than it was before the call.
C13_UpdatedAtAdvances ==
    [][/\ \A id \in DOMAIN datasets' :
            NotBefore(datasets'[id].updated_at, datasets'[id].created_at)
       /\ \A id \in DOMAIN datasets, columns \in ColumnPayloads, rows \in RowPayloads :
            ((columns.present \/ rows.present) /\ UpdateStep(id, columns, rows)) =>
               Later(datasets'[id].updated_at, datasets[id].updated_at) = "yes"]_vars

\* the step is an update_dataset call that names id, stored or not
UpdateCall(id, columns, rows) ==
    /\ handled'.op = "update_dataset"
    /\ handled'.id = id
    /\ handled'.columns = columns.present
    /\ handled'.rows = rows.present
    /\ update_dataset(id, columns, rows)

\* C14: update_dataset is all-or-nothing.  A call on an unknown id answers
\* not-found and writes nothing.  A call on a stored id replaces that one
\* record by a record whose columns and rows are the ones sent (or the old
\* ones where none were sent) and whose updated_at is the timestamp of the
\* entry appended to the history; every other record stays as it was.
C14_AllOrNothing ==
    [][\A id \in DatasetIds, columns \in ColumnPayloads, rows \in RowPayloads :
          UpdateCall(id, columns, rows) =>
            IF id \notin DOMAIN datasets
            THEN handled'.code = 404 /\ datasets' = datasets
            ELSE /\ handled'.code = 200
                 /\ DOMAIN datasets' = DOMAIN datasets
                 /\ \A other \in DOMAIN datasets \ {id} : datasets'[other] = datasets[other]
                 /\ datasets'[id].columns =
                        IF columns.present THEN columns.v ELSE datasets[id].columns
                 /\ datasets'[id].rows =
                        IF rows.present THEN rows.v ELSE datasets[id].rows
                 /\ IF columns.present \/ rows.present
                    THEN /\ Len(datasets'[id].edit_history) =
                               Len(datasets[id].edit_history) + 1
                         /\ LastEntry(id).timestamp = datasets'[id].updated_at
                         /\ DOMAIN LastEntry(id).changes =
                               (IF columns.present
                                THEN {"columns_added", "columns_removed"} ELSE {})
                               \cup (IF rows.present
                                     THEN {"rows_added", "rows_removed", "rows_modified"}
                                     ELSE {})
                    ELSE datasets'[id] = datasets[id]]_vars

\* an update that carried both fields was sent to an id that is not stored,
\* next to a stored dataset: it was answered 404
C14_Witness ==
    /\ handled.op = "update_dataset"
    /\ handled.code = 404
    /\ handled.columns /\ handled.rows
    /\ handled.id \notin DOMAIN datasets
    /\ DOMAIN datasets # {}

-----------------------------------------------------------------------------
(* Properties of the extraction runs, over Spec                            *)

Terminal == {"completed", "failed", "needs_ocr", "needs_vision"}

\* C15: a job starts in status running; every job record persisted (the
\* record a run returns is the one it persists) is in one of the terminal
\* states completed, failed, needs_ocr, needs_vision and has completed_at
\* set; a persisted record is never written again.
C15_JobLifecycle ==
    [][/\ \A requested \in Strategies : NewJob(nextId, requested).status = "running"
       /\ \A id \in DOMAIN jobs' :
            /\ jobs'[id].status \in Terminal
            /\ jobs'[id].completed_at # NoTime
            /\ jobs'[id].completed_at.t >= jobs'[id].created_at.t
       /\ \A id \in DOMAIN jobs :
            /\ id \in DOMAIN jobs'
            /\ jobs'[id] = jobs[id]]_vars

\* a run has completed and its dataset was edited afterwards: the job record
\* is still the completed one
C15_Witness ==
    /\ handled.op = "update_dataset"
    /\ handled.code = 200
    /\ \E id \in DOMAIN jobs :
          /\ jobs[id].status = "completed"
          /\ jobs[id].completed_at # NoTime
          /\ jobs[id].dataset_id = handled.id
          /\ now > jobs[id].completed_at.t

\* the step is a run of run_extraction behind POST /extract
RunStep(is_pdf, page, requested, pagetext, clipped, fault) ==
    /\ handled'.op = "start_extraction"
    /\ handled'.code \in {202, 500}
    /\ start_extraction(TRUE, is_pdf, page, requested, pagetext, clipped, fault)

\* the page has more than MinUsableText characters of text
UsableText(pagetext) == Len(strip(pagetext)) > MinUsableText

\* C16: in a run on a PDF page with strategy auto in which no call raises:
\* with a usable text layer the job ends completed with strategy_used
\* pdf_text and its dataset is stored; without one the job ends needs_ocr and
\* no dataset is stored.
C16_AutoStrategy ==
    [][\A pagetext \in PageTexts, clipped \in BOOLEAN :
          RunStep(TRUE, "ok", "auto", pagetext, clipped, "none") =>
            LET job == jobs'[JobId(nextId)]
            IN  IF UsableText(pagetext)
                THEN /\ job.status = "completed"
                     /\ job.strategy_used = "pdf_text"
                     /\ DOMAIN datasets' = DOMAIN datasets \cup {job.dataset_id}
                     /\ job.dataset_id \notin DOMAIN datasets
                     /\ datasets'[job.dataset_id].strategy_used = "pdf_text"
                ELSE /\ job.status = "needs_ocr"
                     /\ job.strategy_used = "none"
                     /\ datasets' = datasets]_vars

\* strategy auto on a page with a text layer: the job is completed with
\* pdf_text and the parsed table is stored
C16_Witness ==
    \E id \in DOMAIN jobs :
        /\ jobs[id].strategy_requested = "auto"
        /\ jobs[id].status = "completed"
        /\ jobs[id].strategy_used = "pdf_text"
        /\ jobs[id].dataset_id \in DOMAIN datasets
        /\ Len(datasets[jobs[id].dataset_id].rows) > 0
        /\ handled.op = "start_extraction"

\* C17: when pdf_text is requested and the page has no usable text layer,
\* the run ends with status failed and stores no dataset.
C17_PdfTextWithoutText ==
    [][\A pagetext \in PageTexts, clipped \in BOOLEAN :
          (~UsableText(pagetext)
             /\ RunStep(TRUE, "ok", "pdf_text", pagetext, clipped, "none")) =>
            /\ jobs'[JobId(nextId)].status = "failed"
            /\ datasets' = datasets]_vars

C19_FailClosed ==
    \A n \in 1..MaxIds :
        DatasetId(n) \in DOMAIN datasets
          <=> (JobId(n) \in DOMAIN jobs /\ jobs[JobId(n)].status = "completed")

\* C20: for every stored dataset d there is a stored job j with
\* j.job_id = d.job_id and j.dataset_id = d.id.
C20_MutualReference ==
    \A d \in DOMAIN datasets :
        \E j \in DOMAIN jobs :
            /\ jobs[j].job_id = datasets[d].job_id
            /\ jobs[j].dataset_id = datasets[d].id

-----------------------------------------------------------------------------
(* The multi-space scheme of the parser, over SpecParse                    *)

\* C26: the multi-space scheme is taken only if the token counts of the
\* lines, split on runs of two or more whitespace characters, have a minimum
\* above 1 and a spread of at most 1. If no token of the first line starts
\* with a digit, the first line gives the column names and is not a row
\* (rows = lines - 1); otherwise the names are Column_1..Column_n, n the
\* largest token count, and the first line is the first row (rows = lines).
C26_SpaceScheme ==
    (ppc = "done" /\ parsed.scheme = "space") =>
        LET ls == InLines
            tokens == [i \in DOMAIN ls |-> space_split(ls[i])]
            n == Max({Len(tokens[i]) : i \in DOMAIN ls})
        IN  /\ SpacePre(ls)
            /\ IF Promoted(tokens[1])
               THEN /\ parsed.columns = tokens[1]
                    /\ Len(parsed.rows) = Len(ls) - 1
               ELSE /\ parsed.columns = [j \in 1..n |-> ColumnName(j)]
                    /\ Len(parsed.rows) = Len(ls)
                    /\ \A j \in DOMAIN tokens[1] :
                          parsed.rows[1][ColumnName(j)] = StrV(tokens[1][j])

\* a multi-space table whose first line has a token with a leading digit,
\* over a line with one more token
C26_Witness ==
    /\ ppc = "done"
    /\ parsed.scheme = "space"
    /\ ~Promoted(space_split(InLines[1]))
    /\ Len(InLines) = 2
    /\ Len(parsed.columns) = 3
    /\ Len(parsed.rows) = 2

-----------------------------------------------------------------------------
(* The job log, over Spec                                                  *)

\* the log lines that tell how a run ended
TransitionLines ==
    { "File is an image, would need OCR",
      "No text layer found, OCR or Vision LLM needed",
      "Extraction completed successfully",
      "Error: Page out of range",
      "Error: write failed" }

\* C29: the log of a job only grows during its run, from the line written
\* at the start, and on every path that sets a terminal status a line that
\* describes the transition is appended before the job is persisted: the
\* last line of every persisted log is such a line.
C29_TraceLines ==
    \A id \in DOMAIN jobs :
        LET logs == jobs[id].logs
        IN  /\ logs[1] = LogLine("Starting extraction on page", 0)
            /\ Len(logs) >= 2
            /\ logs[Len(logs)].line \in TransitionLines

-----------------------------------------------------------------------------
(* Interleaved updates, over SpecRace                                      *)

\* the call of process c has returned 200 for an update that carries a field
Succeeded(c) ==
    /\ calls[c].pc = "returned"
    /\ calls[c].code = 200
    /\ (calls[c].columns.present \/ calls[c].rows.present)

\* C25: when two update_dataset calls on the same dataset id have both read
\* the stored record before either wrote and both returned success, the
\* stored record is the whole record of one of them: its edit_history holds
\* the history read plus the entry of that call only, the entry of the other
\* call is lost.
C25_LastWriterWins ==
    \A c, d \in Callers :
        (/\ c # d
         /\ Succeeded(c) /\ Succeeded(d)
         /\ calls[c].dataset_id = calls[d].dataset_id
         /\ calls[c].loaded = calls[d].loaded) =>
            LET stored == datasets[calls[c].dataset_id]
            IN  /\ stored \in {calls[c].dataset, calls[d].dataset}
                /\ Len(stored.edit_history) = Len(calls[c].loaded.edit_history) + 1

\* both calls returned 200, one sent columns and the other rows, and the
\* stored record has the rows of the second with the columns as extracted
C25_Witness ==
    /\ Succeeded(1) /\ Succeeded(2)
    /\ calls[1].loaded = calls[2].loaded
    /\ calls[1].columns.present /\ ~calls[1].rows.present
    /\ calls[2].rows.present /\ ~calls[2].columns.present
    /\ datasets[calls[1].dataset_id] = calls[2].dataset
    /\ datasets[calls[1].dataset_id].columns = calls[1].loaded.columns
    /\ Len(datasets[calls[1].dataset_id].edit_history) = 1

-----------------------------------------------------------------------------
(* Properties of the identifications, over SpecIdentify                    *)

\* the stored identification id has an expires_at before the current time
Expired(id) == id \in DOMAIN idents /\ idents[id].expires_at.t < now

\* C21: an identification whose expires_at is earlier than the current time
\* is answered 410 (expired), not 404 and not 200, when it is fetched and
\* when a configured phase-2 run names it, and the run stores no dataset.
C21_ExpiredRejected ==
    [][\A id \in DOMAIN idents :
          Expired(id) =>
            /\ get_identification(id) => handled'.code = 410
            /\ \A unboxed, image_exists \in BOOLEAN, extractions \in Extractions,
                  reply \in {"RuntimeError", "Exception", "tables"} :
                  extract_run(TRUE, id, unboxed, image_exists, reply, extractions) =>
                      /\ handled'.code = 410
                      /\ datasets' = datasets]_vars

\* C22: a configured phase-2 run on a stored identification that has not
\* expired, with a selected item "new-..." that has no bounding box, is
\* answered 400 (validation error) and stores no dataset.
C22_NewItemNeedsBox ==
    [][\A id \in DOMAIN idents :
          \A image_exists \in BOOLEAN, extractions \in Extractions,
             reply \in {"RuntimeError", "Exception", "tables"} :
             (~Expired(id)
                /\ extract_run(TRUE, id, TRUE, image_exists, reply, extractions)) =>
                  /\ handled'.code = 400
                  /\ datasets' = datasets]_vars

\* no step deletes or changes a stored identification, and its status stays
\* awaiting_confirmation
IdentificationsKept ==
    \A id \in DOMAIN idents :
        /\ id \in DOMAIN idents'
        /\ idents'[id] = idents[id]
        /\ idents'[id].status = "awaiting_confirmation"

\* a phase-2 run on an identification that has not expired, with its image
\* in place and a reply of the model, succeeds and stores datasets under ids
\* not in the store before
Reusable ==
    \A id \in DOMAIN idents, extractions \in Extractions :
        (~Expired(id) /\ extract_run(TRUE, id, FALSE, TRUE, "tables", extractions)) =>
            /\ handled'.code = 200
            /\ DOMAIN datasets \subseteq DOMAIN datasets'
            /\ DOMAIN datasets' # DOMAIN datasets
            /\ \A d \in DOMAIN datasets : datasets'[d] = datasets[d]

\* C30: no operation (fetch, phase-2 run, passage of time) deletes or changes
\* a stored identification, its status stays awaiting_confirmation, an
\* expired record stays in the store, and before expiry the identification
\* can be used by phase-2 runs, each storing datasets under fresh ids.
C30_LazyExpiry ==
    [][IdentificationsKept /\ Reusable]_vars

-----------------------------------------------------------------------------
(* Properties of vision.extract_data, over SpecVision                      *)

\* the datasets of the reply before the merge option is applied
Inputs ==
    built_datasets(nextId,
                   items_for_prompt(vision_call.items, vision_call.stored_items),
                   vision_call.stored_items, vision_call.extractions)

\* the input table that row j of the merged table comes from
OriginOf(j) ==
    CHOOSE k \in DOMAIN Inputs :
        rows_before(Inputs, k) < j /\ j <= rows_before(Inputs, k) + Len(Inputs[k].rows)

\* s without the elements that occur earlier in s
FirstAppearances(s) ==
    LET keep == {i \in DOMAIN s : \A h \in 1..(i - 1) : s[h] # s[i]}
        f[i \in 0..Len(s)] ==
            IF i = 0 THEN <<>>
            ELSE IF i \in keep THEN Append(f[i - 1], s[i]) ELSE f[i - 1]
    IN  f[Len(s)]

\* C23: with the merge option set and more than one element extracted the
\* result is one table: its columns are Source, Category and then the
\* distinct column names of the inputs in order of first appearance, its
\* rows are the rows of the inputs in input order, each with Source = the id
\* and Category = the title of the element it comes from, and its confidence
\* is the mean of the inputs' confidences; otherwise the tables are returned
\* unmerged.
C23_Merge ==
    vision_result.returned =>
        IF vision_call.options.merge_datasets /\ Len(Inputs) > 1
        THEN /\ Len(vision_result.datasets) = 1
             /\ LET merged == vision_result.datasets[1]
                IN  /\ merged.columns =
                          FirstAppearances(<<SOURCE, CATEGORY>>
                              \o Cat([k \in DOMAIN Inputs |-> Inputs[k].columns]))
                    /\ Len(merged.rows) = rows_before(Inputs, Len(Inputs) + 1)
                    /\ \A j \in DOMAIN merged.rows :
                          /\ merged.rows[j][SOURCE] = StrV(Inputs[OriginOf(j)].source_item_id)
                          /\ merged.rows[j][CATEGORY] = Inputs[OriginOf(j)].title
                    /\ merged.confidence.count = Len(Inputs)
                    /\ merged.confidence.sum = sum_confidence(Inputs)
        ELSE vision_result.datasets = Inputs

\* C24: every row returned by extract_data carries the row identifier made
\* from its position in its table, also when the row of the model's reply
\* has a row_id of its own.
C24_SyntheticRowId ==
    vision_result.returned =>
        \A k \in DOMAIN vision_result.datasets :
            \A i \in DOMAIN vision_result.datasets[k].rows :
                vision_result.datasets[k].rows[i][ROW_ID] = RowTag(i)

\* the selections that are not user-added and name a stored item
Existing ==
    {i \in DOMAIN vision_call.items :
        /\ ~startswith(vision_call.items[i].item_id, NEW_)
        /\ \E k \in DOMAIN vision_call.stored_items :
              vision_call.stored_items[k].item_id = vision_call.items[i].item_id}

OriginalOf(i) ==
    CHOOSE o \in Range(vision_call.stored_items) : o.item_id = vision_call.items[i].item_id

\* the item of the prompt made for selection i has the box, type and title
PromptHas(i, bbox, type, title) ==
    \E k \in DOMAIN vision_result.prompt :
        /\ vision_result.prompt[k].item_id = vision_call.items[i].item_id
        /\ vision_result.prompt[k].bbox = bbox
        /\ vision_result.prompt[k].type = type
        /\ vision_result.prompt[k].title = title

\* C27, as stated: for a selected item that is not user-added and is among
\* the stored items, the item passed to the model has the bounding box
\* detected, whatever box the selection carries, and the title and the type
\* of the selection when given, of the original item otherwise.
C27_AsStated ==
    vision_result.returned =>
        \A i \in Existing :
            LET selection == vision_call.items[i]
            IN  PromptHas(i, OriginalOf(i).bbox,
                          IF selection.type # NoType THEN selection.type
                          ELSE OriginalOf(i).type,
                          IF selection.title # NoneV THEN selection.title
                          ELSE OriginalOf(i).title)

\* C27: for a selected item that is not user-added and is among the stored
\* items, the item passed to the model has the bounding box detected,
\* whatever box the selection carries, the type of the selection when given
\* and of the original item otherwise, and as title the title of the
\* selection when it is a non-empty string, otherwise the title of the
\* original item when that is a non-empty string, otherwise "Untitled".
C27_PromptItems ==
    vision_result.returned =>
        \A i \in Existing :
            LET selection == vision_call.items[i]
                given(v) == v # NoneV /\ v.v # <<>>
            IN  PromptHas(i, OriginalOf(i).bbox,
                          IF selection.type # NoType THEN selection.type
                          ELSE OriginalOf(i).type,
                          IF given(selection.title) THEN selection.title
                          ELSE IF given(OriginalOf(i).title) THEN OriginalOf(i).title
                          ELSE StrV(UNTITLED))

\* item-1 selected with a title, a type and a box of the user: the prompt
\* has the title and the type of the user and the box detected
C27_Witness ==
    /\ vision_result.returned
    /\ vision_call.items = <<Selection(ITEM_1, StrV(MINE), "table", 9)>>
    /\ vision_result.prompt =
          <<[item_id |-> ITEM_1, type |-> "table", title |-> StrV(MINE), bbox |-> 1]>>

\* C28: with granularity full_with_source, no table is returned whose
\* columns lack the source column or whose rows lack the source value.
C28_SourceColumn ==
    (vision_result.returned /\ vision_call.options.granularity = "full_with_source") =>
        \A k \in DOMAIN vision_result.datasets :
            /\ source \in Range(vision_result.datasets[k].columns)
            /\ \A i \in DOMAIN vision_result.datasets[k].rows :
                  source \in DOMAIN vision_result.datasets[k].rows[i]

====
